---- MODULE Spec2Model ----
(***************************************************************************)
(* EmbeddingLoader (embedding_loader.py): a loader object holding one      *)
(* attribute, parent_dir, and five retrieval methods that resolve a file   *)
(* name from their parameters, unpickle the file and, for corpus="concat", *)
(* combine the "title" and "text" artifacts column-wise.                   *)
(*                                                                         *)
(* The program is single-threaded and every method runs to completion, so  *)
(* one action models one whole call.  The order of the file reads a call   *)
(* makes is kept in the sequence reads of the call's record.  Python     *)
(* runs without -O: the assert statements are executed.                    *)
(***************************************************************************)
EXTENDS Integers, Sequences, FiniteSets, TLC

VARIABLES
    disk,     \* the filesystem: [dirs: set of directory paths, files: path -> content]
    loader,   \* self.parent_dir of the one EmbeddingLoader object, NoLoader before __init__
    last,     \* the call that completed last: [op, args, out, reads]
    memo      \* observer: an earlier completed load call, kept to compare a repetition with

vars == <<disk, loader, last, memo>>

---------------------------------------------------------------------------
(* Bounds *)

MaxRows == 2      \* document counts of the artifacts on disk range over 1..MaxRows
TitleCols == 2    \* column count of the "title" artifacts on disk
TextCols == 3     \* column count of the "text" artifacts on disk

---------------------------------------------------------------------------
(* Python values: type, str() of the value as "{}".format prints it, and   *)
(* truthiness as x if v else y tests it.                                 *)

PyStr(s)  == [ty |-> "str", str |-> s, truth |-> (s # "")]
PyBool(b) == [ty |-> "bool", str |-> (IF b THEN "True" ELSE "False"), truth |-> b]
PyInt(n)  == [ty |-> "int", str |-> ToString(n), truth |-> (n # 0)]
PyNone    == [ty |-> "NoneType", str |-> "None", truth |-> FALSE]

\* isinstance(v, bool)
isinstance_bool(v) == v.ty = "bool"

---------------------------------------------------------------------------
(* Artifacts and outcomes *)

\* A column of a matrix is named by the file it was stored in and its index there.
Column(file, j) == [file |-> file, j |-> j]

Columns(file, n) == [j \in 1..n |-> Column(file, j)]

\* scipy.sparse matrix (2-D)
Sparse(file, rows, ncols) == [kind |-> "sparse", ndim |-> 2, rows |-> rows, cols |-> Columns(file, ncols)]

\* numpy.ndarray of shape (rows, ncols)
Dense(file, rows, ncols) == [kind |-> "dense", ndim |-> 2, rows |-> rows, cols |-> Columns(file, ncols)]

\* numpy.ndarray of shape (rows,)
Vector(rows) == [kind |-> "dense", ndim |-> 1, rows |-> rows, cols |-> << >>]

\* a file whose bytes pickle cannot load
Corrupt == [kind |-> "corrupt", ndim |-> 0, rows |-> 0, cols |-> << >>]

NoValue == [kind |-> "none", ndim |-> 0, rows |-> 0, cols |-> << >>]

\* a call returns val
Return(val, reads) == [out |-> [tag |-> "ok", msg |-> "", val |-> val], reads |-> reads]

\* a call raises exception tag with message msg
Raise(tag, msg, reads) == [out |-> [tag |-> tag, msg |-> msg, val |-> NoValue], reads |-> reads]

NoLoader == "<no loader>"

NoCall == [op |-> "none", args |-> << >>, out |-> [tag |-> "none", msg |-> "", val |-> NoValue], reads |-> << >>]

NoMemo == [op |-> "none", args |-> << >>, out |-> [tag |-> "none", msg |-> "", val |-> NoValue], between |-> FALSE]

---------------------------------------------------------------------------
(* The filesystem.  The artifacts are written by the training pipeline     *)
(* under the names of its file-naming protocol; the names are listed here  *)
(* as that pipeline writes them, not computed by the loader.               *)

OnehotSuffixes ==
    { "-onehot(scorer=count).pkl",
      "-onehot(scorer=tfidf).pkl",
      "-onehot(scorer=count, normalized).pkl",
      "-onehot(scorer=tfidf, normalized).pkl" }

D2vSuffixes ==
    { "-d2v(vecsize=300, winsize=13, mincount=5, dbow, epochs=100).pkl",
      "-d2v(vecsize=300, winsize=13, mincount=5, dm, epochs=100).pkl",
      "-d2v(vecsize=300, winsize=13, mincount=25, dbow, epochs=100).pkl",
      "-d2v(vecsize=300, winsize=13, mincount=25, dm, epochs=100).pkl" }

Nd2vSuffixes ==
    { "-nd2v(normalizer=None).pkl",
      "-nd2v(normalizer=l2).pkl",
      "-nd2v(normalizer=mean).pkl" }

EmbeddingsDir == "embeddings"

SpareDir == "data"

LabelPath == "embeddings/label.pkl"

\* the artifact files the pipeline may have written for one corpus
Entries(corpus) ==
    { [path |-> EmbeddingsDir \o "/" \o corpus \o s, corpus |-> corpus, kind |-> "sparse"] : s \in OnehotSuffixes }
    \cup
    { [path |-> EmbeddingsDir \o "/" \o corpus \o s, corpus |-> corpus, kind |-> "dense"] : s \in D2vSuffixes \cup Nd2vSuffixes }

\* what the pipeline left for one corpus: all its files well-formed with
\* `rows` documents and `ncols` columns, all unreadable, or none at all
CorpusStates(ncols) ==
    { [status |-> "ok", rows |-> r, ncols |-> ncols] : r \in 1..MaxRows }
    \cup { [status |-> "corrupt", rows |-> 1, ncols |-> ncols], [status |-> "absent", rows |-> 1, ncols |-> ncols] }

\* a single file that is missing although the rest of its corpus is there
Holes ==
    { "embeddings/title-d2v(vecsize=300, winsize=13, mincount=5, dm, epochs=100).pkl",
      "embeddings/text-onehot(scorer=tfidf, normalized).pkl",
      "embeddings/text-nd2v(normalizer=None).pkl" }

Content(e, st) ==
    IF st.status = "corrupt" THEN Corrupt
    ELSE IF e.kind = "sparse" THEN Sparse(e.path, st.rows, st.ncols)
    ELSE Dense(e.path, st.rows, st.ncols)

Files(title, text, label, hole) ==
    LET present == { e \in Entries("title") : title.status # "absent" /\ e.path # hole }
                   \cup { e \in Entries("text") : text.status # "absent" /\ e.path # hole }
        state(e) == IF e.corpus = "title" THEN title ELSE text
        arts     == [ p \in { e.path : e \in present } |->
                        Content(CHOOSE e \in present : e.path = p, state(CHOOSE e \in present : e.path = p)) ]
    IN  IF label = "absent" THEN arts
        ELSE IF label = "corrupt" THEN arts @@ (LabelPath :> Corrupt)
        ELSE arts @@ (LabelPath :> Vector(title.rows))

Dirs == {EmbeddingsDir, EmbeddingsDir \o "/", SpareDir}

\* the directories the program is started on: every state of the two corpora
\* with the labels in place, one artifact missing from a complete set, and a
\* complete set whose label file is missing or unreadable; SpareDir is empty
Disks ==
    { [dirs |-> Dirs, files |-> Files(title, text, "ok", "none")] :
        title \in CorpusStates(TitleCols), text \in CorpusStates(TextCols) }
    \cup
    { [dirs |-> Dirs, files |-> Files([status |-> "ok", rows |-> MaxRows, ncols |-> TitleCols],
                                      [status |-> "ok", rows |-> MaxRows, ncols |-> TextCols], label, hole)] :
        label \in {"absent", "corrupt", "ok"}, hole \in Holes \cup {"none"} }

---------------------------------------------------------------------------
(* Library primitives the loader calls *)

\* os.path.isdir(path)
isdir(path) == path \in disk.dirs

\* os.path.join(a, b) for a relative b: a separator is inserted unless a is
\* empty or already ends with one
os_path_join(a, b) ==
    IF a = "" \/ a \in { d \o "/" : d \in {EmbeddingsDir, SpareDir} } THEN a \o b ELSE a \o "/" \o b

\* scipy.sparse.hstack([a, b]) of two sparse matrices: the blocks side by
\* side, a's columns first; ValueError when the blocks' row counts differ
hstack(a, b) ==
    IF a.rows # b.rows THEN Raise("ValueError", "blocks[0,:] has incompatible row dimensions", << >>).out
    ELSE Return([kind |-> "sparse", ndim |-> 2, rows |-> a.rows, cols |-> a.cols \o b.cols], << >>).out

\* np.concatenate((a, b), axis=1): a's columns then b's; AxisError for 1-D
\* input, ValueError when the row counts differ
concatenate(a, b) ==
    IF a.ndim # b.ndim THEN Raise("ValueError", "all the input arrays must have same number of dimensions", << >>).out
    ELSE IF a.ndim < 2 THEN Raise("AxisError", "axis 1 is out of bounds for array of dimension 1", << >>).out
    ELSE IF a.rows # b.rows THEN Raise("ValueError", "all the input array dimensions except for the concatenation axis must match exactly", << >>).out
    ELSE Return([kind |-> "dense", ndim |-> 2, rows |-> a.rows, cols |-> a.cols \o b.cols], << >>).out

---------------------------------------------------------------------------
(* The loader's methods.  Each returns [out, reads]: the value returned or *)
(* the exception raised, and the paths it opened, in order.                *)

\* get_file re-raising without the path
get_file_bare_error(path) ==
    IF path \notin DOMAIN disk.files THEN Raise("FileNotFoundError", "", <<path>>)
    ELSE IF disk.files[path].kind = "corrupt" THEN Raise("UnpicklingError", "", <<path>>)
    ELSE Return(disk.files[path], <<path>>)

\* get_file(path): open and unpickle; a FileNotFoundError is re-raised with
\* the path as its message, any other exception propagates as it is
get_file(path) ==
    IF path \notin DOMAIN disk.files THEN Raise("FileNotFoundError", path, <<path>>)
    ELSE IF disk.files[path].kind = "corrupt" THEN Raise("UnpicklingError", "", <<path>>)
    ELSE Return(disk.files[path], <<path>>)

\* the marker written for the wrong value of normalize
get_onehot_filename_inverted(corpus, scorer, normalize) ==
    corpus.str \o "-onehot(scorer=" \o scorer.str \o (IF normalize.truth THEN "" ELSE ", normalized") \o ").pkl"

get_onehot_filename(corpus, scorer, normalize) ==
    corpus.str \o "-onehot(scorer=" \o scorer.str \o (IF normalize.truth THEN ", normalized" ELSE "") \o ").pkl"

\* the two training-mode markers exchanged
get_d2v_filename_swapped(corpus, vec_size, win_size, min_count, dm, epochs) ==
    corpus.str \o "-d2v(vecsize=" \o vec_size.str \o ", winsize=" \o win_size.str
        \o ", mincount=" \o min_count.str \o ", " \o (IF dm.truth THEN "dbow" ELSE "dm")
        \o ", epochs=" \o epochs.str \o ").pkl"

get_d2v_filename(corpus, vec_size, win_size, min_count, dm, epochs) ==
    corpus.str \o "-d2v(vecsize=" \o vec_size.str \o ", winsize=" \o win_size.str
        \o ", mincount=" \o min_count.str \o ", " \o (IF dm.truth THEN "dm" ELSE "dbow")
        \o ", epochs=" \o epochs.str \o ").pkl"

get_nd2v_filename(corpus, normalizer) ==
    corpus.str \o "-nd2v(normalizer=" \o normalizer.str \o ").pkl"

\* evaluation of combine(first, second) in Python: the arguments are evaluated
\* left to right, and an exception in one ends the whole expression
Both(first, second, combined) ==
    IF first.out.tag # "ok" THEN first
    ELSE IF second.out.tag # "ok" THEN [out |-> second.out, reads |-> first.reads \o second.reads]
    ELSE [out |-> combined, reads |-> first.reads \o second.reads]

RECURSIVE get_onehot(_, _, _, _)
RECURSIVE get_d2v(_, _, _, _, _, _, _)
RECURSIVE get_nd2v(_, _, _)

\* get_onehot without the check of normalize's type
get_onehot_unchecked_normalize(self, corpus, scorer, normalize) ==
    IF corpus \notin {PyStr("title"), PyStr("text"), PyStr("concat")}
    THEN Raise("AssertionError", "corpus must be either 'title', 'text', or 'concat'", << >>)
    ELSE IF scorer \notin {PyStr("count"), PyStr("tfidf")}
    THEN Raise("AssertionError", "scorer must be either 'count' or 'tfidf'", << >>)
    ELSE IF corpus \in {PyStr("title"), PyStr("text")}
    THEN get_file(os_path_join(self, get_onehot_filename(corpus, scorer, normalize)))
    ELSE LET title == get_onehot(self, PyStr("title"), scorer, normalize)
             text  == get_onehot(self, PyStr("text"), scorer, normalize)
         IN  Both(title, text, hstack(title.out.val, text.out.val))

\* get_onehot loading "text" before "title"
get_onehot_text_first(self, corpus, scorer, normalize) ==
    IF corpus \notin {PyStr("title"), PyStr("text"), PyStr("concat")}
    THEN Raise("AssertionError", "corpus must be either 'title', 'text', or 'concat'", << >>)
    ELSE IF scorer \notin {PyStr("count"), PyStr("tfidf")}
    THEN Raise("AssertionError", "scorer must be either 'count' or 'tfidf'", << >>)
    ELSE IF ~isinstance_bool(normalize)
    THEN Raise("AssertionError", "normalize must be a bool", << >>)
    ELSE IF corpus \in {PyStr("title"), PyStr("text")}
    THEN get_file(os_path_join(self, get_onehot_filename(corpus, scorer, normalize)))
    ELSE LET title == get_onehot(self, PyStr("title"), scorer, normalize)
             text  == get_onehot(self, PyStr("text"), scorer, normalize)
         IN  Both(text, title, hstack(title.out.val, text.out.val))

get_onehot(self, corpus, scorer, normalize) ==
    IF corpus \notin {PyStr("title"), PyStr("text"), PyStr("concat")}
    THEN Raise("AssertionError", "corpus must be either 'title', 'text', or 'concat'", << >>)
    ELSE IF scorer \notin {PyStr("count"), PyStr("tfidf")}
    THEN Raise("AssertionError", "scorer must be either 'count' or 'tfidf'", << >>)
    ELSE IF ~isinstance_bool(normalize)
    THEN Raise("AssertionError", "normalize must be a bool", << >>)
    ELSE IF corpus \in {PyStr("title"), PyStr("text")}
    THEN get_file(os_path_join(self, get_onehot_filename(corpus, scorer, normalize)))
    ELSE LET title == get_onehot(self, PyStr("title"), scorer, normalize)
             text  == get_onehot(self, PyStr("text"), scorer, normalize)
         IN  Both(title, text, hstack(title.out.val, text.out.val))

\* get_d2v cutting both matrices to the shorter one's rows before joining them
get_d2v_truncating(self, corpus, vec_size, win_size, min_count, dm, epochs) ==
    IF corpus \notin {PyStr("title"), PyStr("text"), PyStr("concat")}
    THEN Raise("AssertionError", "corpus must be either 'title', 'text', or 'concat'", << >>)
    ELSE IF corpus \in {PyStr("title"), PyStr("text")}
    THEN get_file(os_path_join(self, get_d2v_filename(corpus, vec_size, win_size, min_count, dm, epochs)))
    ELSE LET title == get_d2v(self, PyStr("title"), vec_size, win_size, min_count, dm, epochs)
             text  == get_d2v(self, PyStr("text"), vec_size, win_size, min_count, dm, epochs)
             n     == IF title.out.val.rows < text.out.val.rows THEN title.out.val.rows ELSE text.out.val.rows
         IN  Both(title, text, concatenate([title.out.val EXCEPT !.rows = n], [text.out.val EXCEPT !.rows = n]))

get_d2v(self, corpus, vec_size, win_size, min_count, dm, epochs) ==
    IF corpus \notin {PyStr("title"), PyStr("text"), PyStr("concat")}
    THEN Raise("AssertionError", "corpus must be either 'title', 'text', or 'concat'", << >>)
    ELSE IF corpus \in {PyStr("title"), PyStr("text")}
    THEN get_file(os_path_join(self, get_d2v_filename(corpus, vec_size, win_size, min_count, dm, epochs)))
    ELSE LET title == get_d2v(self, PyStr("title"), vec_size, win_size, min_count, dm, epochs)
             text  == get_d2v(self, PyStr("text"), vec_size, win_size, min_count, dm, epochs)
         IN  Both(title, text, concatenate(title.out.val, text.out.val))

\* get_nd2v not passing the normalizer on to the "text" load
get_nd2v_drops_normalizer(self, corpus, normalizer) ==
    IF corpus \notin {PyStr("title"), PyStr("text"), PyStr("concat")}
    THEN Raise("AssertionError", "corpus must be either 'title', 'text', or 'concat'", << >>)
    ELSE IF ~(normalizer = PyNone \/ normalizer \in {PyStr("l2"), PyStr("mean")})
    THEN Raise("AssertionError", "normalizer must be 'l2', 'mean' or None", << >>)
    ELSE IF corpus \in {PyStr("title"), PyStr("text")}
    THEN get_file(os_path_join(self, get_nd2v_filename(corpus, normalizer)))
    ELSE LET title == get_nd2v(self, PyStr("title"), normalizer)
             text  == get_nd2v(self, PyStr("text"), PyNone)
         IN  Both(title, text, concatenate(title.out.val, text.out.val))

get_nd2v(self, corpus, normalizer) ==
    IF corpus \notin {PyStr("title"), PyStr("text"), PyStr("concat")}
    THEN Raise("AssertionError", "corpus must be either 'title', 'text', or 'concat'", << >>)
    ELSE IF ~(normalizer = PyNone \/ normalizer \in {PyStr("l2"), PyStr("mean")})
    THEN Raise("AssertionError", "normalizer must be 'l2', 'mean' or None", << >>)
    ELSE IF corpus \in {PyStr("title"), PyStr("text")}
    THEN get_file(os_path_join(self, get_nd2v_filename(corpus, normalizer)))
    ELSE LET title == get_nd2v(self, PyStr("title"), normalizer)
             text  == get_nd2v(self, PyStr("text"), normalizer)
         IN  Both(title, text, concatenate(title.out.val, text.out.val))

get_label(self) == get_file(os_path_join(self, "label.pkl"))

---------------------------------------------------------------------------
(* Arguments the callers pass *)

DirArgs == {"embeddings", "embeddings/", "data", "nowhere", "embeddings/label.pkl"}

CorpusArgs == {PyStr("title"), PyStr("text"), PyStr("concat"), PyStr("body")}

ScorerArgs == {PyStr("count"), PyStr("tfidf"), PyStr("bm25")}

NormalizeArgs == {PyBool(FALSE), PyBool(TRUE), PyInt(1)}

VecSizeArgs == {PyInt(300)}

WinSizeArgs == {PyInt(13)}

MinCountArgs == {PyInt(5), PyInt(25)}

DmArgs == {PyBool(FALSE), PyBool(TRUE), PyInt(1)}

EpochsArgs == {PyInt(100)}

NormalizerArgs == {PyNone, PyStr("l2"), PyStr("mean"), PyStr("max")}

---------------------------------------------------------------------------
(* Actions: one per call *)

Completed(op, args, r) == [op |-> op, args |-> args, out |-> r.out, reads |-> r.reads]

\* the constructor without its check of the directory
EmbeddingLoader_init_unchecked(parent_dir) ==
    /\ loader = NoLoader
    /\ loader' = parent_dir
    /\ last' = Completed("__init__", <<PyStr(parent_dir)>>, Return(NoValue, << >>))
    /\ UNCHANGED disk

\* EmbeddingLoader(parent_dir)
EmbeddingLoader_init(parent_dir) ==
    /\ loader = NoLoader
    /\ IF isdir(parent_dir)
       THEN /\ loader' = parent_dir
            /\ last' = Completed("__init__", <<PyStr(parent_dir)>>, Return(NoValue, << >>))
       ELSE /\ loader' = loader
            /\ last' = Completed("__init__", <<PyStr(parent_dir)>>,
                                 Raise("AssertionError", parent_dir \o " is not a valid directory", << >>))
    /\ UNCHANGED disk

Call_get_onehot(corpus, scorer, normalize) ==
    /\ loader # NoLoader
    /\ last' = Completed("get_onehot", <<corpus, scorer, normalize>>, get_onehot(loader, corpus, scorer, normalize))
    /\ UNCHANGED <<disk, loader>>

Call_get_d2v(corpus, vec_size, win_size, min_count, dm, epochs) ==
    /\ loader # NoLoader
    /\ last' = Completed("get_d2v", <<corpus, vec_size, win_size, min_count, dm, epochs>>,
                         get_d2v(loader, corpus, vec_size, win_size, min_count, dm, epochs))
    /\ UNCHANGED <<disk, loader>>

\* get_nd2v keeping the resolved path of a direct load in self.parent_dir
Call_get_nd2v_keeps_path(corpus, normalizer) ==
    /\ loader # NoLoader
    /\ last' = Completed("get_nd2v", <<corpus, normalizer>>, get_nd2v(loader, corpus, normalizer))
    /\ loader' = IF last'.reads = << >> THEN loader ELSE last'.reads[1]
    /\ UNCHANGED disk

Call_get_nd2v(corpus, normalizer) ==
    /\ loader # NoLoader
    /\ last' = Completed("get_nd2v", <<corpus, normalizer>>, get_nd2v(loader, corpus, normalizer))
    /\ UNCHANGED <<disk, loader>>

\* get_label opening the file for writing: the file is created or emptied,
\* and the load fails
Call_get_label_opens_for_writing ==
    /\ loader # NoLoader
    /\ last' = Completed("get_label", << >>,
                         Raise("UnsupportedOperation", "read", <<os_path_join(loader, "label.pkl")>>))
    /\ disk' = [disk EXCEPT !.files = (os_path_join(loader, "label.pkl") :> Corrupt) @@ @]
    /\ UNCHANGED loader

Call_get_label ==
    /\ loader # NoLoader
    /\ last' = Completed("get_label", << >>, get_label(loader))
    /\ UNCHANGED <<disk, loader>>

Construct == \E d \in DirArgs : EmbeddingLoader_init(d)

LoadOnehot == \E c \in CorpusArgs, s \in ScorerArgs, n \in NormalizeArgs : Call_get_onehot(c, s, n)

LoadD2v ==
    \E c \in CorpusArgs, v \in VecSizeArgs, w \in WinSizeArgs, m \in MinCountArgs, dm \in DmArgs, e \in EpochsArgs :
        Call_get_d2v(c, v, w, m, dm, e)

LoadNd2v == \E c \in CorpusArgs, n \in NormalizerArgs : Call_get_nd2v(c, n)

LoadLabel == Call_get_label

Init ==
    /\ disk \in Disks
    /\ loader = NoLoader
    /\ last = NoCall
    /\ memo = NoMemo

Next ==
    \/ Construct /\ UNCHANGED memo
    \/ LoadOnehot /\ UNCHANGED memo
    \/ LoadD2v /\ UNCHANGED memo
    \/ LoadNd2v /\ UNCHANGED memo
    \/ LoadLabel /\ UNCHANGED memo

Spec == Init /\ [][Next]_vars

---------------------------------------------------------------------------
(* Repeated calls.  An observer keeps one earlier completed load call (any *)
(* one: at each completion it either takes the call or keeps what it has)  *)
(* and notes whether a different request completed since.  The requests    *)
(* and the directories are a part of those of Spec.                        *)

Observe ==
    \/ memo' = [op |-> last'.op, args |-> last'.args, out |-> last'.out, between |-> FALSE]
    \/ /\ memo # NoMemo
       /\ memo' = [memo EXCEPT !.between = @ \/ <<last'.op, last'.args>> # <<memo.op, memo.args>>]

DisksIdem ==
    { [dirs |-> Dirs, files |-> Files([status |-> "ok", rows |-> MaxRows, ncols |-> TitleCols],
                                      [status |-> "ok", rows |-> MaxRows, ncols |-> TextCols], "ok", hole)] :
        hole \in Holes \cup {"none"} }
    \cup
    { [dirs |-> Dirs, files |-> Files([status |-> "ok", rows |-> 1, ncols |-> TitleCols],
                                      [status |-> st, rows |-> MaxRows, ncols |-> TextCols], "ok", "none")] :
        st \in {"ok", "corrupt"} }

InitIdem ==
    /\ disk \in DisksIdem
    /\ loader = NoLoader
    /\ last = NoCall
    /\ memo = NoMemo

ConstructIdem == Construct /\ UNCHANGED memo

LoadOnehotIdem ==
    /\ \E c \in CorpusArgs, n \in {PyBool(FALSE), PyBool(TRUE)} : Call_get_onehot(c, PyStr("tfidf"), n)
    /\ Observe

LoadD2vIdem ==
    /\ \E c \in CorpusArgs, dm \in {PyBool(FALSE), PyBool(TRUE)} :
          Call_get_d2v(c, PyInt(300), PyInt(13), PyInt(5), dm, PyInt(100))
    /\ Observe

LoadNd2vIdem ==
    /\ \E c \in CorpusArgs, n \in {PyNone, PyStr("max")} : Call_get_nd2v(c, n)
    /\ Observe

LoadLabelIdem == Call_get_label /\ Observe

NextIdem ==
    \/ ConstructIdem
    \/ LoadOnehotIdem
    \/ LoadD2vIdem
    \/ LoadNd2vIdem
    \/ LoadLabelIdem

SpecIdem == InitIdem /\ [][NextIdem]_vars

---------------------------------------------------------------------------
(* What the claims speak of, stated on the last completed call and the     *)
(* disk, with the file-naming protocol written out as the strings it lists *)

IsLoad == last.op \in {"get_onehot", "get_d2v", "get_nd2v", "get_label"}

IsEmbeddingLoad == last.op \in {"get_onehot", "get_d2v", "get_nd2v"}

CorpusDomain == {PyStr("title"), PyStr("text"), PyStr("concat")}

\* every parameter of the last call is in its enumerated domain
InDomain ==
    CASE last.op = "get_onehot" ->
            /\ last.args[1] \in CorpusDomain
            /\ last.args[2] \in {PyStr("count"), PyStr("tfidf")}
            /\ last.args[3] \in {PyBool(TRUE), PyBool(FALSE)}
      [] last.op = "get_d2v" -> last.args[1] \in CorpusDomain
      [] last.op = "get_nd2v" ->
            /\ last.args[1] \in CorpusDomain
            /\ last.args[2] \in {PyNone, PyStr("l2"), PyStr("mean")}
      [] OTHER -> TRUE

\* the protocol's file name for the last call's parameters and the corpus named
ProtocolKey(corpus) ==
    CASE last.op = "get_onehot" ->
            corpus \o (CASE last.args[2] = PyStr("count") /\ last.args[3] = PyBool(FALSE) -> "-onehot(scorer=count).pkl"
                         [] last.args[2] = PyStr("count") /\ last.args[3] = PyBool(TRUE) -> "-onehot(scorer=count, normalized).pkl"
                         [] last.args[2] = PyStr("tfidf") /\ last.args[3] = PyBool(FALSE) -> "-onehot(scorer=tfidf).pkl"
                         [] last.args[2] = PyStr("tfidf") /\ last.args[3] = PyBool(TRUE) -> "-onehot(scorer=tfidf, normalized).pkl")
      [] last.op = "get_d2v" ->
            corpus \o "-d2v(vecsize=300, winsize=13, mincount="
                   \o (IF last.args[4] = PyInt(5) THEN "5" ELSE "25")
                   \o (IF last.args[5].truth THEN ", dm, epochs=100).pkl" ELSE ", dbow, epochs=100).pkl")
      [] last.op = "get_nd2v" ->
            corpus \o (CASE last.args[2] = PyNone -> "-nd2v(normalizer=None).pkl"
                         [] last.args[2] = PyStr("l2") -> "-nd2v(normalizer=l2).pkl"
                         [] last.args[2] = PyStr("mean") -> "-nd2v(normalizer=mean).pkl")
      [] last.op = "get_label" -> "label.pkl"

\* the file of that name directly under the loader's base directory
ProtocolPath(corpus) ==
    IF loader = "embeddings/" THEN "embeddings/" \o ProtocolKey(corpus) ELSE loader \o "/" \o ProtocolKey(corpus)

Exists(path) == path \in DOMAIN disk.files

Readable(path) == Exists(path) /\ disk.files[path].kind # "corrupt"

\* the error a read of an unreadable path ends with
ReadError(path) ==
    IF Exists(path) THEN [tag |-> "UnpicklingError", msg |-> "", val |-> NoValue]
    ELSE [tag |-> "FileNotFoundError", msg |-> path, val |-> NoValue]

IsConcat == IsEmbeddingLoad /\ last.args[1] = PyStr("concat") /\ InDomain

IsDirect == IsLoad /\ InDomain /\ (IsEmbeddingLoad => last.args[1] \in {PyStr("title"), PyStr("text")})

\* the path a direct load resolves
DirectPath == ProtocolPath(IF last.op = "get_label" THEN "" ELSE last.args[1].str)

---------------------------------------------------------------------------
(* Claims *)

\* C1: a corpus="concat" call of get_onehot, get_d2v or get_nd2v with valid
\* parameters, whose "title" and "text" artifacts both exist with equal row
\* counts, returns the title artifact's columns followed by the text
\* artifact's columns: the common row count, and as many columns as both.
C1_ConcatIsTitleThenText ==
    (IsConcat /\ Readable(ProtocolPath("title")) /\ Readable(ProtocolPath("text"))
        /\ disk.files[ProtocolPath("title")].rows = disk.files[ProtocolPath("text")].rows)
    => LET title == disk.files[ProtocolPath("title")]
           text  == disk.files[ProtocolPath("text")]
       IN  /\ last.out.tag = "ok"
           /\ last.out.val.ndim = 2
           /\ last.out.val.rows = title.rows
           /\ last.out.val.rows = text.rows
           /\ Len(last.out.val.cols) = Len(title.cols) + Len(text.cols)
           /\ last.out.val.cols = title.cols \o text.cols

C1_Witness ==
    /\ IsConcat
    /\ last.op = "get_nd2v"
    /\ last.args[2] = PyStr("l2")
    /\ last.out.tag = "ok"
    /\ last.out.val.rows = MaxRows
    /\ Len(last.out.val.cols) = TitleCols + TextCols

\* C2: a load call with a parameter outside its enumerated domain raises the
\* validation error and opens no file, also when corpus is "concat".
C2_InvalidParameterNoRead ==
    (IsLoad /\ ~InDomain) => (last.out.tag = "AssertionError" /\ last.out.val = NoValue /\ last.reads = << >>)

C2_Witness ==
    /\ last.op = "get_onehot"
    /\ last.args = <<PyStr("concat"), PyStr("count"), PyInt(1)>>
    /\ last.out.tag = "AssertionError"
    /\ last.reads = << >>

\* C3: a load with valid parameters whose resolved file does not exist raises
\* the not-found error with exactly the resolved path as its message, after
\* one attempt to open that path, and returns no value.  For "concat" the
\* resolved file is the first of the title and text files that is read and
\* found missing.
C3_MissingFileNotFound ==
    /\ (IsDirect /\ ~Exists(DirectPath))
          => (last.out = [tag |-> "FileNotFoundError", msg |-> DirectPath, val |-> NoValue]
                /\ last.reads = <<DirectPath>>)
    /\ (IsConcat /\ ~Exists(ProtocolPath("title")))
          => (last.out = [tag |-> "FileNotFoundError", msg |-> ProtocolPath("title"), val |-> NoValue]
                /\ last.reads = <<ProtocolPath("title")>>)
    /\ (IsConcat /\ Readable(ProtocolPath("title")) /\ ~Exists(ProtocolPath("text")))
          => (last.out = [tag |-> "FileNotFoundError", msg |-> ProtocolPath("text"), val |-> NoValue]
                /\ last.reads = <<ProtocolPath("title"), ProtocolPath("text")>>)

C3_Witness ==
    /\ last.op = "get_label"
    /\ loader = "embeddings/"
    /\ last.out.tag = "FileNotFoundError"
    /\ last.out.msg = "embeddings/label.pkl"
    /\ last.reads = <<"embeddings/label.pkl">>

\* C4: a corpus="concat" call whose title and text artifacts both load but
\* have different row counts raises an error and returns no matrix.
C4_RowMismatchFails ==
    (IsConcat /\ Readable(ProtocolPath("title")) /\ Readable(ProtocolPath("text"))
        /\ disk.files[ProtocolPath("title")].rows # disk.files[ProtocolPath("text")].rows)
    => (last.out.tag \notin {"ok", "none"} /\ last.out.val = NoValue)

C4_Witness ==
    /\ IsConcat
    /\ last.op = "get_onehot"
    /\ Readable(ProtocolPath("title"))
    /\ Readable(ProtocolPath("text"))
    /\ disk.files[ProtocolPath("title")].rows # disk.files[ProtocolPath("text")].rows
    /\ last.out.tag = "ValueError"

C5_ConstructionChecked ==
    last.op = "__init__" =>
        LET d == last.args[1].str
        IN  /\ last.out.tag = "ok" <=> d \in disk.dirs
            /\ last.out.tag = "ok" => loader = d
            /\ last.out.tag # "ok" =>
                  /\ last.out.tag = "AssertionError"
                  /\ last.out.msg = d \o " is not a valid directory"
                  /\ loader = NoLoader
            /\ last.reads = << >>

\* C5: construction succeeds exactly when the base directory exists as a
\* directory and then stores that path; otherwise it raises the "not a valid
\* directory" error and there is no loader.  It opens no file and leaves the
\* disk as it was.
C5_Construction ==
    /\ []C5_ConstructionChecked
    /\ [][loader = NoLoader => disk' = disk]_vars

C5_Witness ==
    /\ last.op = "__init__"
    /\ last.args = <<PyStr("embeddings/label.pkl")>>
    /\ Exists("embeddings/label.pkl")
    /\ last.out.tag = "AssertionError"
    /\ loader = NoLoader

\* C6: a load call that repeats an earlier one, with identical parameters,
\* ends as the earlier one did (the same value or the same error), whatever
\* was called between them.
C6_Idempotent ==
    (memo # NoMemo /\ last.op = memo.op /\ last.args = memo.args) => last.out = memo.out

C6_Witness ==
    /\ memo # NoMemo
    /\ memo.between
    /\ last.op = memo.op
    /\ last.args = memo.args
    /\ last.op = "get_d2v"
    /\ last.out.tag = "ok"

\* C7: once the loader is constructed, no call changes its base directory
\* path or the files and directories on disk.
C7_NothingWritten ==
    [][loader # NoLoader => (loader' = loader /\ disk' = disk)]_vars

C7_Witness ==
    /\ loader # NoLoader
    /\ last.op = "get_d2v"
    /\ last.out.tag = "FileNotFoundError"

\* C8: the one-hot file name is "{corpus}-onehot(scorer={scorer}[, normalized]).pkl",
\* the marker present exactly when normalize is true, and get_onehot for
\* "title"/"text" reads exactly the file of that name under the base directory.
C8_OnehotKey ==
    /\ get_onehot_filename(PyStr("title"), PyStr("count"), PyBool(FALSE)) = "title-onehot(scorer=count).pkl"
    /\ get_onehot_filename(PyStr("title"), PyStr("tfidf"), PyBool(TRUE)) = "title-onehot(scorer=tfidf, normalized).pkl"
    /\ (last.op = "get_onehot" /\ IsDirect) =>
          /\ get_onehot_filename(last.args[1], last.args[2], last.args[3]) = ProtocolKey(last.args[1].str)
          /\ last.reads = <<ProtocolPath(last.args[1].str)>>

C8_Witness ==
    /\ last.op = "get_onehot"
    /\ last.args = <<PyStr("text"), PyStr("tfidf"), PyBool(TRUE)>>
    /\ loader = "embeddings"
    /\ last.reads = <<"embeddings/text-onehot(scorer=tfidf, normalized).pkl">>

\* C9: the Doc2Vec file name is "{corpus}-d2v(vecsize=.., winsize=..,
\* mincount=.., dm|dbow, epochs=..).pkl" with "dm" when dm is true and "dbow"
\* when it is false; get_d2v for "title"/"text" reads the file of that name
\* and its outcome is that file's content, so dm decides the file and
\* nothing else.
C9_D2vKey ==
    /\ get_d2v_filename(PyStr("text"), PyInt(300), PyInt(13), PyInt(5), PyBool(FALSE), PyInt(100))
          = "text-d2v(vecsize=300, winsize=13, mincount=5, dbow, epochs=100).pkl"
    /\ get_d2v_filename(PyStr("text"), PyInt(300), PyInt(13), PyInt(5), PyBool(TRUE), PyInt(100))
          = "text-d2v(vecsize=300, winsize=13, mincount=5, dm, epochs=100).pkl"
    /\ (last.op = "get_d2v" /\ IsDirect) =>
          /\ get_d2v_filename(last.args[1], last.args[2], last.args[3], last.args[4], last.args[5], last.args[6])
                = ProtocolKey(last.args[1].str)
          /\ last.reads = <<DirectPath>>
          /\ last.out = IF Readable(DirectPath)
                        THEN [tag |-> "ok", msg |-> "", val |-> disk.files[DirectPath]]
                        ELSE ReadError(DirectPath)

C9_Witness ==
    /\ last.op = "get_d2v"
    /\ last.args = <<PyStr("title"), PyInt(300), PyInt(13), PyInt(5), PyBool(TRUE), PyInt(100)>>
    /\ Exists("embeddings/title-d2v(vecsize=300, winsize=13, mincount=5, dbow, epochs=100).pkl")
    /\ last.out.tag = "FileNotFoundError"
    /\ last.out.msg = "embeddings/title-d2v(vecsize=300, winsize=13, mincount=5, dm, epochs=100).pkl"

\* C10: a corpus="concat" call reads the title file, then the text file, once
\* each, and never a file named for "concat"; when the title read fails the
\* text file is not read; when either read fails the call ends with that
\* read's error and no value.
C10_ConcatReadsInOrder ==
    IsConcat =>
        LET title == ProtocolPath("title")
            text  == ProtocolPath("text")
        IN  /\ last.reads = IF Readable(title) THEN <<title, text>> ELSE <<title>>
            /\ \A i \in 1..Len(last.reads) : last.reads[i] # ProtocolPath("concat")
            /\ ~Readable(title) => last.out = ReadError(title)
            /\ (Readable(title) /\ ~Readable(text)) => last.out = ReadError(text)
            /\ last.out.tag # "ok" => last.out.val = NoValue

C10_Witness ==
    /\ IsConcat
    /\ last.op = "get_onehot"
    /\ Len(last.reads) = 2
    /\ last.out.tag = "FileNotFoundError"
    /\ last.out.msg = "embeddings/text-onehot(scorer=tfidf, normalized).pkl"

====
